---- MODULE Spec2Model ----
(***************************************************************************)
(* ZoKrates core: the redefinition optimizer over IR programs, the         *)
(* unconstrained-variable detector and the compile() pipeline.             *)
(*                                                                         *)
(* A linear combination is a sequence of <<variable, coefficient>> pairs   *)
(* (LinComb(pub Vec<(FlatVariable, T)>)), a quadratic combination a pair   *)
(* <<left, right>> of linear combinations, a statement a record with       *)
(* kind "C" (Constraint(quad, lin)) or "D" (Directive).                    *)
(***************************************************************************)
EXTENDS Integers, Sequences, FiniteSets, TLC

VARIABLES prog, pc, idx, substitution, ignore, out, variables, result, config, abi, artifacts,
          width, counter, layout, arguments, directive, flat_outputs, statements, lhs_sum,
          flat, witness, r1cs

\* the locals of the embed.rs gadget builders
embedVars == <<width, counter, layout, arguments, directive, flat_outputs, statements, lhs_sum,
               flat, witness, r1cs>>

\* the state of the optimizer, the detector and compile()
coreVars == <<prog, substitution, ignore, out, variables, config, abi, artifacts>>

vars == <<prog, pc, idx, substitution, ignore, out, variables, result, config, abi, artifacts,
          embedVars>>

\* ------------------------------------------------------------------ bounds
\* longest generated statement list
MaxLen == 3

\* ------------------------------------------------------------ prime field
\* the field T: Field all arithmetic is done in (a small prime stands for it)
Prime == 7

FieldElems == 0 .. (Prime - 1)

FAdd(a, b) == (a + b) % Prime

FMul(a, b) == (a * b) % Prime

\* inverse_mul of a non-zero element
FInv(k) == CHOOSE j \in 1 .. (Prime - 1) : FMul(j, k) = 1

\* ------------------------------------------------------------- variables
\* FlatVariable::one()
ONE == 0

\* ------------------------------------------------- linear combinations
\* LinComb::zero()
LinZero == << >>

\* LinComb::summand(mult, var)
Summand(k, v) == << <<v, k % Prime>> >>

\* LinComb::one()
LinOne == Summand(1, ONE)

\* lin.is_zero(): the combination has no term
IsZero(l) == Len(l) = 0

\* LinComb + LinComb
LinAdd(a, b) == a \o b

\* LinComb * &scalar
LinScale(l, k) == [j \in DOMAIN l |-> <<l[j][1], FMul(l[j][2], k)>>]

\* LinComb / &scalar: distribute the field inverse
LinDiv(l, k) == LinScale(l, FInv(k))

LinVars(l) == {l[j][1] : j \in DOMAIN l}

RECURSIVE CoeffSum(_, _, _)
CoeffSum(l, v, n) ==
    IF n = 0 THEN 0
    ELSE FAdd(CoeffSum(l, v, n - 1), IF l[n][1] = v THEN l[n][2] ELSE 0)

\* the summed coefficient of v in l
CoeffOf(l, v) == CoeffSum(l, v, Len(l))

SetMin(S) == CHOOSE m \in S : \A o \in S : m <= o

RECURSIVE SortedSeq(_)
SortedSeq(S) ==
    IF S = {} THEN << >>
    ELSE LET m == SetMin(S) IN <<m>> \o SortedSeq(S \ {m})

\* into_canonical(): terms grouped by variable, coefficients summed, zero
\* terms removed, variables ascending (CanonicalLinComb is a BTreeMap)
Canon(l) ==
    LET live == {v \in LinVars(l) : CoeffOf(l, v) # 0}
        order == SortedSeq(live)
    IN  [j \in DOMAIN order |-> <<order[j], CoeffOf(l, order[j])>>]

\* LinComb::try_constant(): Ok(c) iff the canonical form has no term other
\* than the ONE term
TryConstant(l) ==
    LET c == Canon(l)
    IN  IF \A j \in DOMAIN c : c[j][1] = ONE
        THEN [ok |-> TRUE, value |-> CoeffOf(l, ONE), lin |-> l]
        ELSE [ok |-> FALSE, value |-> 0, lin |-> l]

\* LinComb::try_summand(): Ok((v, k)) iff the canonical form is the single
\* term k*v, with v not ONE; v is the first variable of the combination
TrySummand(l) ==
    LET c == Canon(l)
    IN  IF Len(c) = 1 /\ c[1][1] # ONE /\ c[1][1] = l[1][1]
        THEN [ok |-> TRUE, variable |-> c[1][1], coefficient |-> c[1][2], lin |-> l]
        ELSE [ok |-> FALSE, variable |-> ONE, coefficient |-> 0, lin |-> l]

\* ---------------------------------------------- quadratic combinations
\* QuadComb::from_linear_combinations(left, right)
Quad(a, b) == <<a, b>>

\* QuadComb::from(lin): ONE * lin
QuadFromLin(l) == Quad(LinOne, l)

\* QuadComb::reduce()
QuadReduce(q) == Quad(Canon(q[1]), Canon(q[2]))

\* QuadComb::try_linear(): Ok(l) iff one factor reduces to a scalar; l is
\* the other factor scaled by it
TryLinear(q) ==
    LET a == TryConstant(q[1])
        b == TryConstant(q[2])
    IN  IF a.ok THEN [ok |-> TRUE, lin |-> LinScale(q[2], a.value), quad |-> q]
        ELSE IF b.ok THEN [ok |-> TRUE, lin |-> LinScale(q[1], b.value), quad |-> q]
        ELSE [ok |-> FALSE, lin |-> LinZero, quad |-> q]

\* ------------------------------------------------------------ statements
\* Statement::Constraint(quad, lin, message)
Constraint(q, l) == [kind |-> "C", quad |-> q, lin |-> l]

\* Statement::definition(v, e): e == 1 * v
Definition(v, l) == Constraint(QuadFromLin(l), Summand(1, v))

\* Statement::definition(v, quad)
QuadDefinition(v, a, b) == Constraint(Quad(a, b), Summand(1, v))

\* Statement::Directive(Directive { inputs, outputs, solver })
Directive(ins, outs, s) == [kind |-> "D", inputs |-> ins, outputs |-> outs, solver |-> s]

\* Solver::Bits(w)
Bits(w) == [name |-> "Bits", width |-> w]

\* Solver::ConditionEq
ConditionEq == [name |-> "ConditionEq", width |-> 2]

\* FlatParameter { id, private }
Param(v, p) == [id |-> v, private |-> p]

\* Prog { arguments, statements, returns }
Prog(a, s, r) == [arguments |-> a, statements |-> s, returns |-> r]

SeqRange(s) == {s[j] : j \in DOMAIN s}

Pow2(n) == 2 ^ n

\* Interpreter::execute_solver(solver, inputs)
ExecuteSolver(s, ins) ==
    IF s.name = "Bits"
    THEN [j \in 1 .. s.width |-> (ins[1] \div Pow2(s.width - j)) % 2]
    ELSE <<IF ins[1] = 0 THEN 1 ELSE 0, IF ins[1] = 0 THEN 0 ELSE FInv(ins[1])>>

\* ------------------------------------------------ RedefinitionOptimizer
\* RedefinitionOptimizer::new(): empty substitution map
EmptySubstitution == [v \in {} |-> LinZero]

RECURSIVE FoldTerms(_, _, _)
FoldTerms(sub, lc, n) ==
    IF n = 0 THEN LinZero
    ELSE LinAdd(FoldTerms(sub, lc, n - 1),
                IF lc[n][1] \in DOMAIN sub
                THEN LinScale(sub[lc[n][1]], lc[n][2])
                ELSE Summand(lc[n][2], lc[n][1]))

\* fold_linear_combination that leaves every term as it is
fold_linear_combination_kept(sub, lc) == lc

\* fold_linear_combination: replace every substituted variable by its
\* linear combination times the coefficient, when any term is substituted
fold_linear_combination(sub, lc) ==
    IF \E j \in DOMAIN lc : lc[j][1] \in DOMAIN sub
    THEN FoldTerms(sub, lc, Len(lc))
    ELSE lc

\* Folder::fold_quadratic_combination (default): fold both factors
fold_quadratic_combination(sub, q) ==
    Quad(fold_linear_combination(sub, q[1]), fold_linear_combination(sub, q[2]))

\* Folder::fold_directive (default): fold the inputs, keep outputs and solver
fold_directive(sub, d) ==
    [d EXCEPT !.inputs = [j \in DOMAIN d.inputs |-> fold_quadratic_combination(sub, d.inputs[j])]]

\* the result of fold_statement: the new maps and the statements returned
Folded(sub, ign, emit) == [substitution |-> sub, ignore |-> ign, emit |-> emit]

\* map insert: substitution.insert(k, v)
Insert(sub, k, v) == [w \in DOMAIN sub \cup {k} |-> IF w = k THEN v ELSE sub[w]]

\* the constraint branch recording l instead of l / coefficient
FoldConstraintUndivided(sub, ign, s) ==
    LET quad == fold_quadratic_combination(sub, s.quad)
        lin == fold_linear_combination(sub, s.lin)
    IN  IF IsZero(lin) THEN Folded(sub, ign, <<Constraint(quad, lin)>>)
        ELSE IF lin[1][1] \in ign \/ lin[1][1] \in DOMAIN sub
        THEN Folded(sub, ign, <<Constraint(quad, lin)>>)
        ELSE LET ts == TrySummand(lin)
                 tl == TryLinear(quad)
             IN  IF ~ts.ok THEN Folded(sub, ign, <<Constraint(quad, ts.lin)>>)
                 ELSE IF tl.ok
                 THEN Folded(Insert(sub, ts.variable, Canon(tl.lin)), ign, << >>)
                 ELSE Folded(sub, ign \cup {ts.variable},
                             <<Constraint(tl.quad, Summand(ts.coefficient, ts.variable))>>)

\* the constraint branch keeping the constraint as soon as substitution has
\* any key, instead of testing the key lin.0[0].0
FoldConstraintAnyKey(sub, ign, s) ==
    LET quad == fold_quadratic_combination(sub, s.quad)
        lin == fold_linear_combination(sub, s.lin)
    IN  IF IsZero(lin) THEN Folded(sub, ign, <<Constraint(quad, lin)>>)
        ELSE IF lin[1][1] \in ign \/ DOMAIN sub # {}
        THEN Folded(sub, ign, <<Constraint(quad, lin)>>)
        ELSE LET ts == TrySummand(lin)
                 tl == TryLinear(quad)
             IN  IF ~ts.ok THEN Folded(sub, ign, <<Constraint(quad, ts.lin)>>)
                 ELSE IF tl.ok
                 THEN Folded(Insert(sub, ts.variable, Canon(LinDiv(tl.lin, ts.coefficient))),
                             ign, << >>)
                 ELSE Folded(sub, ign \cup {ts.variable},
                             <<Constraint(tl.quad, Summand(ts.coefficient, ts.variable))>>)

\* the constraint branch keeping the constraint as it was before the rewriting
FoldConstraintKeepsUnfolded(sub, ign, s) ==
    LET quad == fold_quadratic_combination(sub, s.quad)
        lin == fold_linear_combination(sub, s.lin)
    IN  IF IsZero(lin) THEN Folded(sub, ign, <<Constraint(quad, lin)>>)
        ELSE IF lin[1][1] \in ign \/ lin[1][1] \in DOMAIN sub
        THEN Folded(sub, ign, <<s>>)
        ELSE LET ts == TrySummand(lin)
                 tl == TryLinear(quad)
             IN  IF ~ts.ok THEN Folded(sub, ign, <<Constraint(quad, ts.lin)>>)
                 ELSE IF tl.ok
                 THEN Folded(Insert(sub, ts.variable, Canon(LinDiv(tl.lin, ts.coefficient))),
                             ign, << >>)
                 ELSE Folded(sub, ign \cup {ts.variable},
                             <<Constraint(tl.quad, Summand(ts.coefficient, ts.variable))>>)

\* fold_statement, Statement::Constraint branch
FoldConstraint(sub, ign, s) ==
    LET quad == fold_quadratic_combination(sub, s.quad)
        lin == fold_linear_combination(sub, s.lin)
    IN  IF IsZero(lin) THEN Folded(sub, ign, <<Constraint(quad, lin)>>)
        ELSE IF lin[1][1] \in ign \/ lin[1][1] \in DOMAIN sub
        THEN Folded(sub, ign, <<Constraint(quad, lin)>>)
        ELSE LET ts == TrySummand(lin)
                 tl == TryLinear(quad)
             IN  IF ~ts.ok THEN Folded(sub, ign, <<Constraint(quad, ts.lin)>>)
                 ELSE IF tl.ok
                 THEN Folded(Insert(sub, ts.variable, Canon(LinDiv(tl.lin, ts.coefficient))),
                             ign, << >>)
                 ELSE Folded(sub, ign \cup {ts.variable},
                             <<Constraint(tl.quad, Summand(ts.coefficient, ts.variable))>>)

\* the directive inputs reduced to Result<T, QuadComb<T>>
ReduceInput(q) ==
    LET tl == TryLinear(QuadReduce(q))
    IN  IF ~tl.ok THEN [ok |-> FALSE, value |-> 0, quad |-> tl.quad]
        ELSE LET tc == TryConstant(tl.lin)
             IN  IF tc.ok THEN [ok |-> TRUE, value |-> tc.value, quad |-> QuadFromLin(Summand(tc.value, ONE))]
                 ELSE [ok |-> FALSE, value |-> 0, quad |-> QuadFromLin(tc.lin)]

RECURSIVE InsertOutputs(_, _, _, _)
InsertOutputs(sub, outs, vals, n) ==
    IF n = 0 THEN sub
    ELSE Insert(InsertOutputs(sub, outs, vals, n - 1), outs[n], Canon(Summand(vals[n], ONE)))

\* the directive branch that never runs the solver: always re-emits
FoldDirectiveNeverFolded(sub, ign, s) ==
    LET d == fold_directive(sub, s)
        inputs == [j \in DOMAIN d.inputs |-> ReduceInput(d.inputs[j])]
    IN  Folded(sub, ign \cup SeqRange(d.outputs),
               <<Directive([j \in DOMAIN inputs |-> inputs[j].quad], d.outputs, d.solver)>>)

\* fold_statement, Statement::Directive branch
FoldDirective(sub, ign, s) ==
    LET d == fold_directive(sub, s)
        inputs == [j \in DOMAIN d.inputs |-> ReduceInput(d.inputs[j])]
    IN  IF \A j \in DOMAIN inputs : inputs[j].ok
        THEN LET outputs == ExecuteSolver(d.solver, [j \in DOMAIN inputs |-> inputs[j].value])
             IN  Folded(InsertOutputs(sub, d.outputs, outputs, Len(d.outputs)), ign, << >>)
        ELSE Folded(sub, ign \cup SeqRange(d.outputs),
                    <<Directive([j \in DOMAIN inputs |-> inputs[j].quad], d.outputs, d.solver)>>)

\* fold_statement returning its statement twice
fold_statement_doubled(sub, ign, s) ==
    LET f == IF s.kind = "C" THEN FoldConstraint(sub, ign, s) ELSE FoldDirective(sub, ign, s)
    IN  Folded(f.substitution, f.ignore, f.emit \o f.emit)

\* fold_statement
fold_statement(sub, ign, s) ==
    IF s.kind = "C" THEN FoldConstraint(sub, ign, s) ELSE FoldDirective(sub, ign, s)

\* fold_module: seed ignore with the returns and ONE
SeedIgnore(p) == SeqRange(p.returns) \cup {ONE}

\* ignore once fold_module has seeded it and the arguments are folded
InitialIgnore(p) == SeedIgnore(p) \cup {p.arguments[j].id : j \in DOMAIN p.arguments}

\* flat_map: what a statement emitted is appended to what was emitted so far
FlatMap(emitted, step) == Folded(step.substitution, step.ignore, emitted \o step.emit)

\* fold_statement applied to statement s in the optimizer state before
FoldOne(before, s) ==
    FlatMap(before.emit, fold_statement(before.substitution, before.ignore, s))

\* fold_argument returning the parameter with its flag inverted
FoldedArgumentFlipped(a) == [a EXCEPT !.private = ~a.private]

\* fold_argument: the parameter it returns
FoldedArgument(a) == a

\* fold_module: the arguments mapped through fold_argument
FoldedArguments(p) == [j \in DOMAIN p.arguments |-> FoldedArgument(p.arguments[j])]

RECURSIVE FoldStatements(_, _, _, _)
\* the optimizer state after the first n statements of p
FoldStatements(p, n, sub0, ign0) ==
    IF n = 0 THEN Folded(sub0, ign0, << >>)
    ELSE FoldOne(FoldStatements(p, n - 1, sub0, ign0), p.statements[n])

\* RedefinitionOptimizer::optimize(p)
Optimize(p) ==
    Prog(FoldedArguments(p),
         FoldStatements(p, Len(p.statements), EmptySubstitution, InitialIgnore(p)).emit,
         p.returns)

\* ----------------------------------------------------- input programs
\* variables of the generated programs: argument x, auxiliaries a and b,
\* and r, which is returned by half of the programs
vx == 1
va == 2
vb == 3
vr == 4

\* the statements the generated programs are built from
StmtPool ==
    { Definition(va, Summand(1, vx)),
      Definition(vb, Summand(1, va)),
      Definition(vr, LinAdd(Summand(1, va), Summand(1, vb))),
      Definition(vr, Summand(1, vb)),
      Definition(va, Summand(3, ONE)),
      QuadDefinition(va, Summand(1, vx), Summand(1, vx)),
      Constraint(QuadFromLin(Summand(2, va)), Summand(6, vx)),
      Constraint(QuadFromLin(Summand(1, vx)), Summand(3, vb)),
      Constraint(Quad(Summand(1, va), Summand(1, va)), Summand(1, vr)),
      Directive(<<QuadFromLin(Summand(1, vx))>>, <<va, vb>>, ConditionEq),
      Directive(<<QuadFromLin(Summand(2, ONE))>>, <<va, vb>>, Bits(2)),
      Directive(<<QuadFromLin(Summand(1, va))>>, <<vb>>, Bits(1)),
      Directive(<<QuadFromLin(Summand(5, ONE))>>, <<vr>>, Bits(1)) }

StmtLists == UNION {[1 .. n -> StmtPool] : n \in 0 .. MaxLen}

GeneratedPrograms ==
    {Prog(<<Param(vx, FALSE)>>, s, r) : s \in StmtLists, r \in {<< >>, <<vr>>}}

\* tests::remove_synonyms: y := x; z := y; return z
RemoveSynonyms ==
    Prog(<<Param(1, FALSE)>>,
         <<Definition(2, Summand(1, 1)), Definition(3, Summand(1, 2))>>,
         <<3>>)

\* tests::substitute_lincomb
SubstituteLincomb ==
    Prog(<<Param(1, FALSE), Param(2, FALSE)>>,
         <<Definition(3, LinAdd(Summand(1, 1), Summand(1, 2))),
           Definition(4, LinAdd(LinAdd(Summand(1, 3), Summand(1, 1)), Summand(1, 2))),
           Definition(5, LinAdd(LinAdd(Summand(1, 4), Summand(1, 1)), Summand(1, 2))),
           Constraint(QuadFromLin(Summand(2, 5)), LinAdd(Summand(6, 1), Summand(6, 2))),
           Definition(6, LinAdd(LinAdd(Summand(1, 3), Summand(1, 4)), Summand(1, 5)))>>,
         <<6>>)

\* tests::keep_existing_quadratic_variable: z := x * y; z := x
KeepExistingQuadraticVariable ==
    Prog(<<Param(1, FALSE), Param(2, FALSE)>>,
         <<QuadDefinition(3, Summand(1, 1), Summand(1, 2)), Definition(3, Summand(1, 1))>>,
         << >>)

\* a Bits(8) directive on the constant 5, its outputs summed into a return
BitsOfFive ==
    Prog(<< >>,
         <<Directive(<<QuadFromLin(Summand(5, ONE))>>, <<1, 2, 3, 4, 5, 6, 7, 8>>, Bits(8)),
           Definition(9, LinAdd(Summand(1, 6), Summand(1, 8)))>>,
         <<9>>)

\* tests::keep_one: one := x; return x
KeepOne ==
    Prog(<<Param(1, FALSE)>>, <<Definition(ONE, Summand(1, 1))>>, <<1>>)

\* tests::keep_existing_variable: x == 1; x == 2; return x
KeepExistingVariable ==
    Prog(<<Param(1, FALSE)>>,
         <<Constraint(QuadFromLin(Summand(1, 1)), Summand(1, ONE)),
           Constraint(QuadFromLin(Summand(1, 1)), Summand(2, ONE))>>,
         <<1>>)

\* tests::remove_multiple_synonyms: y := x; t := 1; z := y; w := t; return z, w
RemoveMultipleSynonyms ==
    Prog(<<Param(1, FALSE)>>,
         <<Definition(2, Summand(1, 1)), Definition(4, Summand(1, ONE)),
           Definition(3, Summand(1, 2)), Definition(5, Summand(1, 4))>>,
         <<3, 5>>)

TestPrograms ==
    {RemoveSynonyms, SubstituteLincomb, KeepExistingQuadraticVariable, BitsOfFive, KeepOne,
     KeepExistingVariable, RemoveMultipleSynonyms}

OptPrograms == GeneratedPrograms \cup TestPrograms

\* CompileConfig::default()
DefaultConfig == [allow_unconstrained_variables |-> FALSE, isolate_branches |-> FALSE]

\* no gadget is being built
EmbedIdle ==
    /\ width = 0
    /\ counter = 0
    /\ layout = << >>
    /\ arguments = << >>
    /\ directive = "none"
    /\ flat_outputs = << >>
    /\ statements = << >>
    /\ lhs_sum = "none"
    /\ flat = "none"
    /\ witness = << >>
    /\ r1cs = "none"

\* --------------------------------------------- the optimizer, step by step
\* the phase that follows phase ph of the traversal of p
PhaseAfter(p, ph) ==
    IF ph = "fold_module" /\ Len(p.arguments) > 0 THEN "arguments"
    ELSE IF ph \in {"fold_module", "arguments"} /\ Len(p.statements) > 0 THEN "statements"
    ELSE "optimized"

Init ==
    /\ prog \in OptPrograms
    /\ pc = "fold_module"
    /\ idx = 1
    /\ substitution = EmptySubstitution
    /\ ignore = {}
    /\ out = << >>
    /\ variables = {}
    /\ result = "none"
    /\ config = DefaultConfig
    /\ abi = "none"
    /\ artifacts = "none"
    /\ EmbedIdle

\* RedefinitionOptimizer::fold_module: seed ignore, then traverse
FoldModule ==
    /\ pc = "fold_module"
    /\ ignore' = ignore \cup SeedIgnore(prog)
    /\ pc' = PhaseAfter(prog, "fold_module")
    /\ idx' = 1
    /\ UNCHANGED <<prog, substitution, out, variables, result, config, abi, artifacts, embedVars>>

\* the ignore set after fold_argument(a)
fold_argument(ign, a) == ign \cup {a.id}

\* RedefinitionOptimizer::fold_argument on the next argument
FoldArgument ==
    /\ pc = "arguments"
    /\ ignore' = fold_argument(ignore, prog.arguments[idx])
    /\ IF idx = Len(prog.arguments)
       THEN pc' = PhaseAfter(prog, "arguments") /\ idx' = 1
       ELSE pc' = pc /\ idx' = idx + 1
    /\ UNCHANGED <<prog, substitution, out, variables, result, config, abi, artifacts, embedVars>>

\* RedefinitionOptimizer::fold_statement on the next statement
FoldStatement ==
    /\ pc = "statements"
    /\ LET f == fold_statement(substitution, ignore, prog.statements[idx])
       IN  /\ substitution' = f.substitution
           /\ ignore' = f.ignore
           /\ out' = out \o f.emit
    /\ IF idx = Len(prog.statements)
       THEN pc' = "optimized" /\ idx' = idx
       ELSE pc' = pc /\ idx' = idx + 1
    /\ UNCHANGED <<prog, variables, result, config, abi, artifacts, embedVars>>

Next == FoldModule \/ FoldArgument \/ FoldStatement

Spec == Init /\ [][Next]_vars

\* the program optimize() returns, once the traversal is over
Optimized == Prog(FoldedArguments(prog), out, prog.returns)

\* ----------------------------------------- UnconstrainedVariableDetector
\* Result<(), Error>: Ok(()) or Err(Error(count))
Ok == [ok |-> TRUE, count |-> 0]

Err(n) == [ok |-> FALSE, count |-> n]

\* visit_argument without the test of p.private
visit_argument_any(vs, p) == vs \cup {p.id}

\* visit_argument with the test of p.private inverted
visit_argument_public(vs, p) == IF p.private THEN vs ELSE vs \cup {p.id}

\* visit_argument: a private argument becomes a suspect
visit_argument(vs, p) == IF p.private THEN vs \cup {p.id} ELSE vs

\* visit_variable that forgets to remove the variable
visit_variable_kept(vs, v) == vs

\* visit_variable: a visited variable is no longer a suspect
visit_variable(vs, v) == vs \ {v}

\* visit_directive that does not record the outputs
visit_directive_skipped(vs, d) == vs

\* visit_directive that also visits the variables of the inputs
visit_directive_inputs_visited(vs, d) ==
    (vs \cup SeqRange(d.outputs)) \
        UNION {LinVars(d.inputs[j][1]) \cup LinVars(d.inputs[j][2]) : j \in DOMAIN d.inputs}

\* visit_directive: every output becomes a suspect; the inputs are not visited
visit_directive(vs, d) == vs \cup SeqRange(d.outputs)

RECURSIVE VisitTerms(_, _, _)
VisitTerms(vs, l, n) ==
    IF n = 0 THEN vs ELSE visit_variable(VisitTerms(vs, l, n - 1), l[n][1])

\* Visitor::visit_linear_combination (default): visit every variable
visit_linear_combination(vs, l) == VisitTerms(vs, l, Len(l))

\* Visitor::visit_statement (default)
visit_statement(vs, s) ==
    IF s.kind = "C"
    THEN visit_linear_combination(
             visit_linear_combination(visit_linear_combination(vs, s.quad[1]), s.quad[2]),
             s.lin)
    ELSE visit_directive(vs, s)

RECURSIVE VisitArguments(_, _)
VisitArguments(p, n) ==
    IF n = 0 THEN {} ELSE visit_argument(VisitArguments(p, n - 1), p.arguments[n])

RECURSIVE VisitStatements(_, _)
\* the suspects after the arguments and the first n statements of p
VisitStatements(p, n) ==
    IF n = 0 THEN VisitArguments(p, Len(p.arguments))
    ELSE visit_statement(VisitStatements(p, n - 1), p.statements[n])

\* the end of detect(): Ok when no suspect is left, else Err(count)
Verdict(vs) == IF vs = {} THEN Ok ELSE Err(Cardinality(vs))

\* UnconstrainedVariableDetector::detect(p)
Detect(p) == Verdict(VisitStatements(p, Len(p.statements)))

\* the programs given to the detector: argument x, private or public
DetectorPool ==
    { Definition(vr, Summand(1, vx)),
      Constraint(Quad(Summand(1, ONE), Summand(6, ONE)), Summand(1, vr)),
      Constraint(Quad(Summand(1, vx), Summand(1, vb)), Summand(1, va)),
      Constraint(Quad(LinAdd(Summand(1, ONE), Summand(6, va)), Summand(1, vx)), LinZero),
      Directive(<<QuadFromLin(Summand(1, vx))>>, <<va, vb>>, ConditionEq),
      Directive(<<QuadFromLin(Summand(1, va))>>, <<vb>>, Bits(1)) }

DetectorLists == UNION {[1 .. n -> DetectorPool] : n \in 0 .. MaxLen}

DetectorPrograms ==
    {Prog(<<Param(vx, p)>>, s, <<vr>>) : p \in BOOLEAN, s \in DetectorLists}

DetectInit ==
    /\ prog \in DetectorPrograms
    /\ pc = "visit_module"
    /\ idx = 1
    /\ substitution = EmptySubstitution
    /\ ignore = {}
    /\ out = << >>
    /\ variables = {}
    /\ result = "none"
    /\ config = DefaultConfig
    /\ abi = "none"
    /\ artifacts = "none"
    /\ EmbedIdle

\* visit_module: the arguments, one visit_argument each
VisitArgument ==
    /\ pc = "visit_module"
    /\ variables' = visit_argument(variables, prog.arguments[idx])
    /\ IF idx = Len(prog.arguments)
       THEN pc' = "visit_statements" /\ idx' = 1
       ELSE pc' = pc /\ idx' = idx + 1
    /\ UNCHANGED <<prog, substitution, ignore, out, result, config, abi, artifacts, embedVars>>

\* visit_module: the statements in order
VisitStatement ==
    /\ pc = "visit_statements"
    /\ idx <= Len(prog.statements)
    /\ variables' = visit_statement(variables, prog.statements[idx])
    /\ idx' = idx + 1
    /\ UNCHANGED <<prog, pc, substitution, ignore, out, result, config, abi, artifacts, embedVars>>

\* detect(): the verdict once the module is visited
DetectReturn ==
    /\ pc = "visit_statements"
    /\ idx > Len(prog.statements)
    /\ result' = Verdict(variables)
    /\ pc' = "detected"
    /\ UNCHANGED <<prog, idx, substitution, ignore, out, variables, config, abi, artifacts, embedVars>>

DetectNext == VisitArgument \/ VisitStatement \/ DetectReturn

DetectSpec == DetectInit /\ [][DetectNext]_vars

\* ----------------------------------------------------------- compile()
\* CompileErrorInner::AnalysisError(Error(count))
AnalysisError(n) == [ok |-> FALSE, kind |-> "AnalysisError", count |-> n]

\* the errors of check_with_arena: parse, import, macro, semantic, read
CheckErrors == {[ok |-> FALSE, kind |-> k, count |-> 0] :
                   k \in {"ParserError", "ImportError", "MacroError", "SemanticError", "ReadError"}}

\* the Abi check_with_arena returns: the signature of main
AbiOf(p) == [inputs |-> p.arguments, outputs |-> Len(p.returns)]

\* CompilationArtifacts { prog, abi }
CompilationArtifacts(p, a) == [prog |-> p, abi |-> a]

Configs == [allow_unconstrained_variables : BOOLEAN, isolate_branches : BOOLEAN]

\* the programs compile() converts to IR: the detector's statements and two
\* definitions of a fresh variable, which the optimizer removes
CompilePrograms ==
    {Prog(<<Param(vx, p)>>, s, <<vr>>) :
        p \in BOOLEAN,
        s \in UNION {[1 .. n -> DetectorPool \cup {Definition(va, Summand(1, vx)),
                                                   Definition(vb, LinAdd(Summand(1, va), Summand(1, ONE)))}]
                        : n \in 0 .. MaxLen}}

\* compile() on a source whose IR is prog, under every configuration
CompileInit ==
    /\ prog \in CompilePrograms
    /\ config \in Configs
    /\ pc = "check"
    /\ idx = 1
    /\ substitution = EmptySubstitution
    /\ ignore = {}
    /\ out = << >>
    /\ variables = {}
    /\ result = "none"
    /\ abi = "none"
    /\ artifacts = "none"
    /\ EmbedIdle

\* check_with_arena(...)?: the typed program and the abi
CheckOk ==
    /\ pc = "check"
    /\ abi' = AbiOf(prog)
    /\ pc' = "flatten"
    /\ UNCHANGED <<prog, idx, substitution, ignore, out, variables, result, config, artifacts, embedVars>>

\* check_with_arena(...)? returns the error of the stage that failed
CheckFails ==
    /\ pc = "check"
    /\ result' \in CheckErrors
    /\ pc' = "failed"
    /\ UNCHANGED <<prog, idx, substitution, ignore, out, variables, config, abi, artifacts, embedVars>>

\* Flattener::flatten(typed_ast, config)
Flatten ==
    /\ pc = "flatten"
    /\ pc' = "propagate"
    /\ UNCHANGED <<prog, idx, substitution, ignore, out, variables, result, config, abi, artifacts, embedVars>>

\* program_flattened.propagate()
Propagate ==
    /\ pc = "propagate"
    /\ pc' = "convert"
    /\ UNCHANGED <<prog, idx, substitution, ignore, out, variables, result, config, abi, artifacts, embedVars>>

\* ir::Prog::from(program_flattened)
ConvertToIr ==
    /\ pc = "convert"
    /\ pc' = "optimise"
    /\ UNCHANGED <<prog, idx, substitution, ignore, out, variables, result, config, abi, artifacts, embedVars>>

\* ir_prog.optimize()
OptimiseIr ==
    /\ pc = "optimise"
    /\ out' = Optimize(prog).statements
    /\ pc' = "analyse"
    /\ UNCHANGED <<prog, idx, substitution, ignore, variables, result, config, abi, artifacts, embedVars>>

\* the analysis applied to the program as it was before the optimizer
AnalyseBeforeOptimise ==
    /\ pc = "analyse"
    /\ LET verdict == Detect(prog)
       IN  IF verdict.ok
           THEN /\ artifacts' = CompilationArtifacts(Optimized, abi)
                /\ result' = Ok
                /\ pc' = "compiled"
           ELSE /\ artifacts' = artifacts
                /\ result' = AnalysisError(verdict.count)
                /\ pc' = "failed"
    /\ UNCHANGED <<prog, idx, substitution, ignore, out, variables, config, abi, embedVars>>

\* optimized_ir_prog.analyse() and the end of compile()
AnalyseIr ==
    /\ pc = "analyse"
    /\ LET verdict == Detect(Optimized)
       IN  IF verdict.ok
           THEN /\ artifacts' = CompilationArtifacts(Optimized, abi)
                /\ result' = Ok
                /\ pc' = "compiled"
           ELSE /\ artifacts' = artifacts
                /\ result' = AnalysisError(verdict.count)
                /\ pc' = "failed"
    /\ UNCHANGED <<prog, idx, substitution, ignore, out, variables, config, abi, embedVars>>

CompileNext ==
    CheckOk \/ CheckFails \/ Flatten \/ Propagate \/ ConvertToIr \/ OptimiseIr \/ AnalyseIr

CompileSpec == CompileInit /\ [][CompileNext]_vars

\* ============================================================== embed.rs
\* FlatExpression::Number(n)
Number(n) == [op |-> "Number", value |-> n % Prime]

\* FlatExpression::Identifier(v)
Identifier(v) == [op |-> "Identifier", id |-> v]

\* FlatExpression::Add(box a, box b)
Add(a, b) == [op |-> "Add", left |-> a, right |-> b]

\* FlatExpression::Mult(box a, box b)
Mult(a, b) == [op |-> "Mult", left |-> a, right |-> b]

\* FlatStatement::Condition(lhs, rhs)
Condition(lhs, rhs) == [kind |-> "Condition", lhs |-> lhs, rhs |-> rhs]

\* FlatStatement::Directive(FlatDirective { inputs, outputs, solver })
FlatDirective(ins, outs, s) == [kind |-> "Directive", inputs |-> ins, outputs |-> outs, solver |-> s]

\* FlatStatement::Return(FlatExpressionList { expressions })
Return(es) == [kind |-> "Return", expressions |-> es]

\* FlatFunction { arguments, statements }
FlatFunction(args, stmts) == [arguments |-> args, statements |-> stmts]

\* T::get_required_bits(): the number of bits of the prime
RequiredBits == CHOOSE n \in 0 .. Prime : Pow2(n) > Prime /\ (n = 0 \/ Pow2(n - 1) <= Prime)

\* use_variable that forgets to advance the index
use_variable_stuck(lay, name, index) ==
    [var |-> index, layout |-> Insert(lay, name, index), index |-> index]

\* use_variable(layout, name, index): the variable of the current index,
\* recorded under name; the index advances
use_variable(lay, name, index) ==
    [var |-> index, layout |-> Insert(lay, name, index), index |-> index + 1]

\* the booleanity statement comparing the bit with itself times one
BitCheckLinear(w, index) ==
    Condition(Identifier(w - index), Mult(Identifier(w - index), Number(1)))

\* the booleanity statement of the loop index: bit == bit * bit
BitCheck(w, index) ==
    Condition(Identifier(w - index), Mult(Identifier(w - index), Identifier(w - index)))

\* the sum check giving every bit the weight one
SumTermUnweighted(acc, w, i) == Add(acc, Mult(Identifier(w - i), Number(1)))

\* the sum check giving the weight 2^i to the bit i + 1
SumTermLowBitFirst(acc, w, i) == Add(acc, Mult(Identifier(i + 1), Number(Pow2(i))))

\* one round of the sum check loop: lhs_sum + o_{w - i} * 2^i
SumTerm(acc, w, i) == Add(acc, Mult(Identifier(w - i), Number(Pow2(i))))

\* the sum check statement: lhs_sum == i0 * 1
SumCheck(sum) == Condition(sum, Mult(Identifier(0), Number(1)))

RECURSIVE EvalFlat(_, _)
\* the value of a FlatExpression under the assignment w
EvalFlat(e, w) ==
    IF e.op = "Number" THEN e.value
    ELSE IF e.op = "Identifier" THEN w[e.id]
    ELSE IF e.op = "Add" THEN FAdd(EvalFlat(e.left, w), EvalFlat(e.right, w))
    ELSE FMul(EvalFlat(e.left, w), EvalFlat(e.right, w))

\* the Condition statements of f that the assignment w violates
Violated(f, w) ==
    {j \in DOMAIN f.statements :
        /\ f.statements[j].kind = "Condition"
        /\ EvalFlat(f.statements[j].lhs, w) # EvalFlat(f.statements[j].rhs, w)}

\* the outcome of executing f: Ok, or the number of violated conditions
Executed(f, w) == IF Violated(f, w) = {} THEN Ok ELSE Err(Cardinality(Violated(f, w)))

\* the assignment the interpreter computes for the input x: the directive of
\* f gives its outputs the values of its solver
SolvedWitness(f, x) ==
    [v \in {0} \cup SeqRange(f.statements[1].outputs) |->
        IF v = 0 THEN x
        ELSE ExecuteSolver(f.statements[1].solver, <<x>>)[
                 CHOOSE j \in DOMAIN f.statements[1].outputs : f.statements[1].outputs[j] = v]]

\* the widths unpack_to_bitwidth is called with
Widths == 0 .. (RequiredBits + 1)

CoreIdle ==
    /\ prog = Prog(<< >>, << >>, << >>)
    /\ substitution = EmptySubstitution
    /\ ignore = {}
    /\ out = << >>
    /\ variables = {}
    /\ config = DefaultConfig
    /\ abi = "none"
    /\ artifacts = "none"

\* unpack_to_bitwidth(width), lines 251-258
UnpackInit ==
    /\ width \in Widths
    /\ pc = "assert"
    /\ idx = 0
    /\ result = "none"
    /\ counter = 0
    /\ layout = << >>
    /\ arguments = << >>
    /\ directive = "none"
    /\ flat_outputs = << >>
    /\ statements = << >>
    /\ lhs_sum = "none"
    /\ flat = "none"
    /\ witness = << >>
    /\ r1cs = "none"
    /\ CoreIdle

\* assert!(width <= nbits) passes; the one private argument
AssertWidth ==
    /\ pc = "assert"
    /\ width <= RequiredBits
    /\ arguments' = <<Param(0, TRUE)>>
    /\ pc' = "directive_inputs"
    /\ UNCHANGED <<coreVars, idx, result, width, counter, layout, directive, flat_outputs,
                   statements, lhs_sum, flat, witness, r1cs>>

\* assert!(width <= nbits) panics
AssertFails ==
    /\ pc = "assert"
    /\ width > RequiredBits
    /\ pc' = "panicked"
    /\ UNCHANGED <<coreVars, idx, result, embedVars>>

\* directive_inputs: use_variable(layout, "i0", counter)
UseInput ==
    /\ pc = "directive_inputs"
    /\ directive' = [inputs |-> <<Identifier(use_variable(layout, "i0", counter).var)>>,
                     outputs |-> << >>, solver |-> "none"]
    /\ layout' = use_variable(layout, "i0", counter).layout
    /\ counter' = use_variable(layout, "i0", counter).index
    /\ pc' = "directive_outputs"
    /\ idx' = 0
    /\ UNCHANGED <<coreVars, result, width, arguments, flat_outputs, statements, lhs_sum,
                   flat, witness, r1cs>>

\* directive_outputs: use_variable(layout, "o{index}", counter) for the next index
UseOutput ==
    /\ pc = "directive_outputs"
    /\ idx < width
    /\ directive' = [directive EXCEPT !.outputs =
                        Append(@, use_variable(layout, "o" \o ToString(idx), counter).var)]
    /\ layout' = use_variable(layout, "o" \o ToString(idx), counter).layout
    /\ counter' = use_variable(layout, "o" \o ToString(idx), counter).index
    /\ idx' = idx + 1
    /\ UNCHANGED <<coreVars, pc, result, width, arguments, flat_outputs, statements, lhs_sum,
                   flat, witness, r1cs>>

\* solver = Solver::Bits(width); outputs = the directive outputs as expressions
CollectOutputs ==
    /\ pc = "directive_outputs"
    /\ idx = width
    /\ directive' = [directive EXCEPT !.solver = Bits(width)]
    /\ flat_outputs' = [j \in DOMAIN directive.outputs |-> Identifier(directive.outputs[j])]
    /\ pc' = "bit_checks"
    /\ idx' = 0
    /\ UNCHANGED <<coreVars, result, width, counter, layout, arguments, statements, lhs_sum,
                   flat, witness, r1cs>>

\* statements: the booleanity statement of the next index
PushBitCheck ==
    /\ pc = "bit_checks"
    /\ idx < width
    /\ statements' = Append(statements, BitCheck(width, idx))
    /\ idx' = idx + 1
    /\ UNCHANGED <<coreVars, pc, result, width, counter, layout, arguments, directive,
                   flat_outputs, lhs_sum, flat, witness, r1cs>>

\* lhs_sum = FlatExpression::Number(T::from(0))
StartSum ==
    /\ pc = "bit_checks"
    /\ idx = width
    /\ lhs_sum' = Number(0)
    /\ pc' = "sum_check"
    /\ idx' = 0
    /\ UNCHANGED <<coreVars, result, width, counter, layout, arguments, directive,
                   flat_outputs, statements, flat, witness, r1cs>>

\* for i in 0..width: lhs_sum = lhs_sum + o * 2^i
AddSumTerm ==
    /\ pc = "sum_check"
    /\ idx < width
    /\ lhs_sum' = SumTerm(lhs_sum, width, idx)
    /\ idx' = idx + 1
    /\ UNCHANGED <<coreVars, pc, result, width, counter, layout, arguments, directive,
                   flat_outputs, statements, flat, witness, r1cs>>

\* statements.push(Condition(lhs_sum, i0 * 1))
PushSumCheck ==
    /\ pc = "sum_check"
    /\ idx = width
    /\ statements' = Append(statements, SumCheck(lhs_sum))
    /\ pc' = "insert_directive"
    /\ UNCHANGED <<coreVars, idx, result, width, counter, layout, arguments, directive,
                   flat_outputs, lhs_sum, flat, witness, r1cs>>

\* statements.insert(0, Directive(...))
InsertDirective ==
    /\ pc = "insert_directive"
    /\ statements' = <<FlatDirective(directive.inputs, directive.outputs, directive.solver)>>
                         \o statements
    /\ pc' = "push_return"
    /\ UNCHANGED <<coreVars, idx, result, width, counter, layout, arguments, directive,
                   flat_outputs, lhs_sum, flat, witness, r1cs>>

\* statements.push(Return(outputs)); FlatFunction { arguments, statements }
PushReturn ==
    /\ pc = "push_return"
    /\ statements' = Append(statements, Return(flat_outputs))
    /\ flat' = FlatFunction(arguments, Append(statements, Return(flat_outputs)))
    /\ pc' = "built"
    /\ UNCHANGED <<coreVars, idx, result, width, counter, layout, arguments, directive,
                   flat_outputs, lhs_sum, witness, r1cs>>

\* the function is executed on an input: the directive solves for the bits
SolveWitness ==
    /\ pc = "built"
    /\ \E x \in FieldElems : witness' = SolvedWitness(flat, x)
    /\ pc' = "assigned"
    /\ UNCHANGED <<coreVars, idx, result, width, counter, layout, arguments, directive,
                   flat_outputs, statements, lhs_sum, flat, r1cs>>

\* a prover supplies the input and the bits of its choice
ForgeWitness ==
    /\ pc = "built"
    /\ witness' \in [0 .. width -> FieldElems]
    /\ pc' = "assigned"
    /\ UNCHANGED <<coreVars, idx, result, width, counter, layout, arguments, directive,
                   flat_outputs, statements, lhs_sum, flat, r1cs>>

\* every Condition of the function is checked against the assignment
CheckConditions ==
    /\ pc = "assigned"
    /\ result' = Executed(flat, witness)
    /\ pc' = "checked"
    /\ UNCHANGED <<coreVars, idx, width, counter, layout, arguments, directive,
                   flat_outputs, statements, lhs_sum, flat, witness, r1cs>>

UnpackNext ==
    \/ AssertWidth \/ AssertFails \/ UseInput \/ UseOutput \/ CollectOutputs
    \/ PushBitCheck \/ StartSum \/ AddSumTerm \/ PushSumCheck \/ InsertDirective
    \/ PushReturn \/ SolveWitness \/ ForgeWitness \/ CheckConditions

UnpackSpec == UnpackInit /\ [][UnpackNext]_vars

\* ---------------------------------------------------------------- embed.rs: sha256_round
\* sizes of the message block and of the hash state handed to the round
\* (512 and 256 in the signature, lines 31-36), scaled down
MessageLen == 2

HashLen == 1

\* the most rows of the constraint system
MaxRows == 2

\* Vec<(variable_id, coefficient)>: one side of a row of the constraint system
Vecs == << << >>,
           << <<0, 1>> >>,
           << <<1, 1>>, <<2, 3>> >>,
           << <<3, 2>>, <<1, 1>>, <<2, 1>> >> >>

\* BellmanConstraint { a, b, c }
BellmanConstraint(a, b, c) == [a |-> a, b |-> b, c |-> c]

BellmanConstraints ==
    {BellmanConstraint(Vecs[2], Vecs[2], Vecs[2]),
     BellmanConstraint(Vecs[3], Vecs[2], Vecs[4]),
     BellmanConstraint(Vecs[1], Vecs[3], Vecs[1]),
     BellmanConstraint(Vecs[4], Vecs[3], Vecs[2])}

RowLists == UNION {[1 .. n -> BellmanConstraints] : n \in 0 .. MaxRows}

\* the numbers of auxiliary variables of the constraint system
AuxCounts == {MessageLen + HashLen + 1, MessageLen + HashLen + 2}

\* generate_sha256_round_constraints(): (r1cs, input_indices, current_hash_indices,
\* output_indices); index 0 is ONE, the inputs follow it
Generated ==
    {[aux_count |-> n,
      constraints |-> cs,
      input_indices |-> [j \in 1 .. MessageLen |-> j],
      current_hash_indices |-> [j \in 1 .. HashLen |-> MessageLen + j],
      output_indices |-> [j \in 1 .. HashLen |-> n - HashLen + j - s]]
        : n \in AuxCounts, cs \in RowLists, s \in 0 .. 1}

\* |(key, val)| Mult(Number(val), Identifier(key))
VecTerm(pair) == Mult(Number(pair[2]), Identifier(pair[1]))

RECURSIVE ReduceAdd(_, _)
\* .reduce(|acc, e| Add(acc, e)) over the first n terms, n >= 1
ReduceAdd(v, n) ==
    IF n = 1 THEN VecTerm(v[1]) ELSE Add(ReduceAdd(v, n - 1), VecTerm(v[n]))

\* the match returning a lone Mult as it is
WrapNothing(e) == e

\* the match of flat_expression_from_vec on the reduced expression
WrapMult(e) == IF e.op = "Mult" THEN Add(Number(0), e) ELSE e

flat_expression_from_vec(v) ==
    IF Len(v) = 0 THEN Number(0) ELSE WrapMult(ReduceAdd(v, Len(v)))

\* From<BellmanConstraint> for FlatStatement
FromBellman(c) ==
    Condition(flat_expression_from_vec(c.c),
              Mult(flat_expression_from_vec(c.a), flat_expression_from_vec(c.b)))

\* r1cs.aux_count + 1: auxiliary and ONE
variable_count(r) == r.aux_count + 1

\* the argument index left at the constraint-system index
ArgumentIndexUnshifted(i, V) == i

\* .map(|i| i + variable_count)
ArgumentIndex(i, V) == i + V

\* input_indices.chain(current_hash_indices)
CsInputIndices(r) == r.input_indices \o r.current_hash_indices

\* input_argument_indices.chain(current_hash_argument_indices)
ArgumentIndices(r) ==
    [j \in DOMAIN CsInputIndices(r) |-> ArgumentIndex(CsInputIndices(r)[j], variable_count(r))]

\* Condition(variable 0, Number(1))
OneBinding == Condition(Identifier(0), Number(1))

\* a binding of the constraint-system variable to itself
InputBindingToItself(cs_index, argument_index) ==
    Condition(Identifier(cs_index), Identifier(cs_index))

\* Condition(variable cs_index, variable argument_index)
InputBinding(cs_index, argument_index) ==
    Condition(Identifier(cs_index), Identifier(argument_index))

\* Solver::Sha256Round
Sha256Round == [name |-> "Sha256Round", width |-> 0]

\* sha256_round(), lines 140-152: the generator has returned
Sha256Init ==
    /\ r1cs \in Generated
    /\ pc = "generated"
    /\ idx = 0
    /\ result = "none"
    /\ width = 0
    /\ counter = 0
    /\ layout = << >>
    /\ arguments = << >>
    /\ directive = "none"
    /\ flat_outputs = << >>
    /\ statements = << >>
    /\ lhs_sum = "none"
    /\ flat = "none"
    /\ witness = << >>
    /\ CoreIdle

\* arguments: one private FlatParameter per argument index
DefineArguments ==
    /\ pc = "generated"
    /\ arguments' = [j \in DOMAIN ArgumentIndices(r1cs) |-> Param(ArgumentIndices(r1cs)[j], TRUE)]
    /\ pc' = "outputs"
    /\ UNCHANGED <<coreVars, idx, result, width, counter, layout, directive, flat_outputs,
                   statements, lhs_sum, flat, witness, r1cs>>

\* outputs: the subset of the witness that is returned
DefineOutputs ==
    /\ pc = "outputs"
    /\ flat_outputs' = [j \in DOMAIN r1cs.output_indices |-> Identifier(r1cs.output_indices[j])]
    /\ pc' = "directive"
    /\ UNCHANGED <<coreVars, idx, result, width, counter, layout, arguments, directive,
                   statements, lhs_sum, flat, witness, r1cs>>

\* directive_statement: outputs the cs_indices 0..variable_count - 1, inputs the arguments
DefineDirective ==
    /\ pc = "directive"
    /\ directive' = FlatDirective([j \in DOMAIN ArgumentIndices(r1cs) |-> Identifier(ArgumentIndices(r1cs)[j])],
                                  [j \in 1 .. variable_count(r1cs) |-> j - 1],
                                  Sha256Round)
    /\ pc' = "chain"
    /\ UNCHANGED <<coreVars, idx, result, width, counter, layout, arguments, flat_outputs,
                   statements, lhs_sum, flat, witness, r1cs>>

\* once(directive_statement)
ChainDirective ==
    /\ pc = "chain"
    /\ statements' = <<directive>>
    /\ pc' = "one"
    /\ UNCHANGED <<coreVars, idx, result, width, counter, layout, arguments, directive,
                   flat_outputs, lhs_sum, flat, witness, r1cs>>

\* .chain(once(one_binding_statement))
ChainOneBinding ==
    /\ pc = "one"
    /\ statements' = Append(statements, OneBinding)
    /\ idx' = 1
    /\ pc' = "bindings"
    /\ UNCHANGED <<coreVars, result, width, counter, layout, arguments, directive,
                   flat_outputs, lhs_sum, flat, witness, r1cs>>

\* .chain(input_binding_statements): the next (cs_index, argument_index) of the zip
ChainInputBinding ==
    /\ pc = "bindings"
    /\ idx <= Len(CsInputIndices(r1cs))
    /\ statements' = Append(statements, InputBinding(CsInputIndices(r1cs)[idx], ArgumentIndices(r1cs)[idx]))
    /\ idx' = idx + 1
    /\ UNCHANGED <<coreVars, pc, result, width, counter, layout, arguments, directive,
                   flat_outputs, lhs_sum, flat, witness, r1cs>>

\* the zip is exhausted
BindingsDone ==
    /\ pc = "bindings"
    /\ idx > Len(CsInputIndices(r1cs))
    /\ idx' = 1
    /\ pc' = "constraints"
    /\ UNCHANGED <<coreVars, result, width, counter, layout, arguments, directive,
                   flat_outputs, statements, lhs_sum, flat, witness, r1cs>>

\* .chain(constraint_statements): the next row, c.into()
ChainConstraint ==
    /\ pc = "constraints"
    /\ idx <= Len(r1cs.constraints)
    /\ statements' = Append(statements, FromBellman(r1cs.constraints[idx]))
    /\ idx' = idx + 1
    /\ UNCHANGED <<coreVars, pc, result, width, counter, layout, arguments, directive,
                   flat_outputs, lhs_sum, flat, witness, r1cs>>

\* .chain(once(return_statement)).collect(); FlatFunction { arguments, statements }
ChainReturn ==
    /\ pc = "constraints"
    /\ idx > Len(r1cs.constraints)
    /\ statements' = Append(statements, Return(flat_outputs))
    /\ flat' = FlatFunction(arguments, Append(statements, Return(flat_outputs)))
    /\ pc' = "built"
    /\ UNCHANGED <<coreVars, idx, result, width, counter, layout, arguments, directive,
                   flat_outputs, lhs_sum, witness, r1cs>>

Sha256Next ==
    \/ DefineArguments \/ DefineOutputs \/ DefineDirective \/ ChainDirective
    \/ ChainOneBinding \/ ChainInputBinding \/ BindingsDone \/ ChainConstraint
    \/ ChainReturn

Sha256Spec == Sha256Init /\ [][Sha256Next]_vars

\* ================================================================ claims
\* the variables of one statement side by side
ConstraintVars(s) == LinVars(s.quad[1]) \cup LinVars(s.quad[2]) \cup LinVars(s.lin)

\* statement s is a constraint with v in its quadratic or linear combination
Mentions(s, v) == s.kind = "C" /\ v \in ConstraintVars(s)

InSomeConstraint(p, v) == \E j \in DOMAIN p.statements : Mentions(p.statements[j], v)

InLaterConstraint(p, i, v) ==
    \E j \in DOMAIN p.statements : j > i /\ Mentions(p.statements[j], v)

ArgumentIds(p) == {p.arguments[j].id : j \in DOMAIN p.arguments}

PrivateArguments(p) == {p.arguments[j].id : j \in {k \in DOMAIN p.arguments : p.arguments[k].private}}

DirectiveOutputs(p) ==
    UNION {SeqRange(p.statements[j].outputs) : j \in {k \in DOMAIN p.statements : p.statements[k].kind = "D"}}

StatementVars(s) ==
    IF s.kind = "C" THEN ConstraintVars(s)
    ELSE SeqRange(s.outputs) \cup
         UNION {LinVars(s.inputs[j][1]) \cup LinVars(s.inputs[j][2]) : j \in DOMAIN s.inputs}

\* every variable that occurs in p
ProgVars(p) ==
    ArgumentIds(p) \cup SeqRange(p.returns) \cup
    UNION {StatementVars(p.statements[j]) : j \in DOMAIN p.statements}

\* the variables of p that no constraint mentions
InNoConstraint(p) == {v \in ProgVars(p) : ~InSomeConstraint(p, v)}

\* the private arguments no constraint mentions and the directive outputs no
\* constraint after their directive mentions
Untied(p) ==
    {v \in PrivateArguments(p) : ~InSomeConstraint(p, v)} \cup
    {v \in DirectiveOutputs(p) :
        \E i \in DOMAIN p.statements :
            /\ p.statements[i].kind = "D"
            /\ v \in SeqRange(p.statements[i].outputs)
            /\ ~InLaterConstraint(p, i, v)}

\* C3 as stated: detect(P) is Ok exactly when no variable of P is outside
\* every constraint, and otherwise Err(count) with count > 0 the number of
\* distinct variables of P that participate in no constraint.
C3_CountsEveryUnconstrainedVariable ==
    pc = "detected" =>
        /\ result.ok <=> InNoConstraint(prog) = {}
        /\ ~result.ok => result.count > 0 /\ result.count = Cardinality(InNoConstraint(prog))

\* C3 amended: detect(P) is Ok exactly when every private argument is in
\* some constraint and every directive output is in some constraint placed
\* after its directive; otherwise it is Err(count) with count > 0 the number
\* of distinct private arguments in no constraint and directive outputs in
\* no constraint after their directive.
C3_CountsUntiedSuspects ==
    pc = "detected" =>
        /\ result.ok <=> Untied(prog) = {}
        /\ ~result.ok => result.count > 0 /\ result.count = Cardinality(Untied(prog))

\* an Err(2) verdict: a private argument and a directive output are untied
C3_Witness ==
    /\ pc = "detected"
    /\ ~result.ok
    /\ result.count = 2
    /\ PrivateArguments(prog) \cap Untied(prog) # {}
    /\ DirectiveOutputs(prog) \cap Untied(prog) # {}

\* C4 as stated: detect(P) is Ok whenever every private argument and every
\* directive output is in at least one constraint of P, wherever the
\* constraints stand relative to the directives.
C4_OkWhenMentionedAnywhere ==
    (/\ pc = "detected"
     /\ \A v \in PrivateArguments(prog) \cup DirectiveOutputs(prog) : InSomeConstraint(prog, v))
        => result.ok

\* C4 amended: detect(P) is Ok whenever every private argument is in at
\* least one constraint and every directive output is in at least one
\* constraint placed after each directive that outputs it.
C4_OkWhenMentionedAfterwards ==
    (/\ pc = "detected"
     /\ \A v \in PrivateArguments(prog) : InSomeConstraint(prog, v)
     /\ \A i \in DOMAIN prog.statements :
            prog.statements[i].kind = "D" =>
                \A v \in SeqRange(prog.statements[i].outputs) : InLaterConstraint(prog, i, v))
        => result.ok

\* Ok for a program with a private argument and a directive, all tied down
C4_Witness ==
    /\ pc = "detected"
    /\ result.ok
    /\ PrivateArguments(prog) # {}
    /\ DirectiveOutputs(prog) # {}

\* C5: if detect(P) is Ok, every private argument and every directive output
\* of P is in the quadratic or linear combination of at least one constraint.
C5_OkImpliesConstrained ==
    (pc = "detected" /\ result.ok) =>
        \A v \in PrivateArguments(prog) \cup DirectiveOutputs(prog) : InSomeConstraint(prog, v)

\* Ok for a program whose private argument and two directive outputs are
\* each mentioned by a constraint
C5_Witness ==
    /\ pc = "detected"
    /\ result.ok
    /\ PrivateArguments(prog) # {}
    /\ Cardinality(DirectiveOutputs(prog)) = 2
    /\ \E j \in DOMAIN prog.statements : Mentions(prog.statements[j], va)

\* C6 as stated: compile() ends with an AnalysisError only when
\* config.allow_unconstrained_variables is false; with the flag true a
\* program whose optimized IR leaves variables unconstrained still yields
\* artifacts.
C6_AnalysisErrorFatalOnlyWithoutFlag ==
    (pc = "failed" /\ result.kind = "AnalysisError") => ~config.allow_unconstrained_variables

\* ------------------------------------------ claims about the optimizer
RECURSIVE EvalTerms(_, _, _)
EvalTerms(l, w, n) ==
    IF n = 0 THEN 0 ELSE FAdd(EvalTerms(l, w, n - 1), FMul(l[n][2], w[l[n][1]]))

\* the value of a linear combination under the assignment w
Eval(l, w) == EvalTerms(l, w, Len(l))

\* the assignment w satisfies statement s (a directive constrains nothing)
Holds(s, w) == s.kind = "C" => FMul(Eval(s.quad[1], w), Eval(s.quad[2], w)) = Eval(s.lin, w)

\* the assignments of the variables V in which ONE is 1
Assignments(V) == {w \in [V -> FieldElems] : w[ONE] = 1}

\* the values of the variables I in the assignments of V that satisfy stmts
Visible(stmts, V, I) ==
    {[v \in I |-> w[v]] : w \in {u \in Assignments(V) : \A j \in DOMAIN stmts : Holds(stmts[j], u)}}

\* largest number of variables the assignments are enumerated for
MaxAssigned == 5

\* C1: optimize(P) and P have the same satisfying assignments restricted to
\* the arguments and returns: an assignment of arguments and returns extends
\* to a witness of all constraints of P iff it extends to one of optimize(P).
C1_SameVisibleAssignments ==
    (pc = "optimized" /\ Cardinality(ProgVars(prog) \cup {ONE}) <= MaxAssigned) =>
        LET V == ProgVars(prog) \cup {ONE}
            I == ArgumentIds(prog) \cup SeqRange(prog.returns)
        IN  Visible(prog.statements, V, I) = Visible(out, V, I)

\* C2: at every point of the pass no variable of ignore (ONE, arguments,
\* returns, outputs of re-emitted directives, quadratically defined
\* variables) is a key of substitution.
C2_IgnoredNeverSubstituted == ignore \cap DOMAIN substitution = {}

\* ---- C7: chains of linear definitions
\* s has the shape L == k * v with L linear and k non-zero
DefinitionShape(s) ==
    s.kind = "C" /\ s.quad[1] = LinOne /\ Len(s.lin) = 1 /\ s.lin[1][2] # 0

Fixed(p) == ArgumentIds(p) \cup SeqRange(p.returns) \cup {ONE}

RECURSIVE AuxDefined(_, _)
\* the auxiliary variables defined by the first n statements of p
AuxDefined(p, n) ==
    IF n = 0 THEN {}
    ELSE LET s == p.statements[n]
             prev == AuxDefined(p, n - 1)
         IN  IF DefinitionShape(s) /\ s.lin[1][1] \notin Fixed(p) \cup prev
             THEN prev \cup {s.lin[1][1]}
             ELSE prev

\* statement n of p is the definition of a fresh auxiliary variable
IsAuxDefinition(p, n) ==
    DefinitionShape(p.statements[n]) /\
    p.statements[n].lin[1][1] \notin Fixed(p) \cup AuxDefined(p, n - 1)

\* arguments, then linear definitions of fresh auxiliaries, constraints on
\* arguments and definitions of returns, over variables already introduced
IsChainProgram(p) ==
    /\ Len(p.arguments) > 0
    /\ \A n \in DOMAIN p.statements :
        LET s == p.statements[n]
            known == Fixed(p) \cup AuxDefined(p, n - 1)
        IN  /\ s.kind = "C"
            /\ LinVars(s.quad[1]) \cup LinVars(s.quad[2]) \subseteq known
            /\ \/ IsAuxDefinition(p, n)
               \/ /\ Len(s.lin) > 0
                  /\ s.lin[1][1] \in ArgumentIds(p) \cup SeqRange(p.returns)
                  /\ LinVars(s.lin) \subseteq known

RECURSIVE ChainValue(_, _)
RECURSIVE ChainExpandTerms(_, _, _, _)
\* l with each auxiliary defined before statement n replaced by its value
ChainExpandTerms(p, l, n, m) ==
    IF m = 0 THEN LinZero
    ELSE ChainExpandTerms(p, l, n, m - 1) \o
         (IF l[m][1] \in AuxDefined(p, n - 1)
          THEN LinScale(ChainValue(p, CHOOSE j \in 1 .. (n - 1) :
                                         IsAuxDefinition(p, j) /\ p.statements[j].lin[1][1] = l[m][1]),
                        l[m][2])
          ELSE <<l[m]>>)

ChainExpand(p, l, n) ==
    IF LinVars(l) \cap AuxDefined(p, n - 1) = {} THEN l ELSE ChainExpandTerms(p, l, n, Len(l))

\* the defining linear combination of the auxiliary of statement j, divided by k
ChainValue(p, j) ==
    Canon(LinScale(ChainExpand(p, p.statements[j].quad[2], j), FInv(p.statements[j].lin[1][2])))

RECURSIVE ChainOutput(_, _)
\* the statements a chain program keeps, with the auxiliaries replaced
ChainOutput(p, n) ==
    IF n = 0 THEN << >>
    ELSE LET s == p.statements[n]
         IN  ChainOutput(p, n - 1) \o
             (IF IsAuxDefinition(p, n) THEN << >>
              ELSE <<Constraint(Quad(ChainExpand(p, s.quad[1], n), ChainExpand(p, s.quad[2], n)),
                                ChainExpand(p, s.lin, n))>>)

\* C7: in a chain program every definition of a non-returned auxiliary is
\* removed and each later occurrence of it is replaced by its defining
\* linear combination divided by k; [y := x; z := y] returning z becomes
\* [z := x], and the a, b, c, r program becomes
\* [6x+6y == 6x+6y; r := x+y+2x+2y+3x+3y].
C7_ChainsAreSubstituted ==
    pc = "optimized" =>
        /\ IsChainProgram(prog) =>
              /\ out = ChainOutput(prog, Len(prog.statements))
              /\ DOMAIN substitution = AuxDefined(prog, Len(prog.statements))
        /\ prog = RemoveSynonyms => out = <<Definition(3, Summand(1, 1))>>
        /\ prog = SubstituteLincomb =>
              out = <<Constraint(QuadFromLin(LinAdd(Summand(6, 1), Summand(6, 2))),
                                 LinAdd(Summand(6, 1), Summand(6, 2))),
                      Definition(6, LinAdd(LinAdd(LinAdd(Summand(1, 1), Summand(1, 2)),
                                                  LinAdd(Summand(2, 1), Summand(2, 2))),
                                           LinAdd(Summand(3, 1), Summand(3, 2))))>>

\* the a, b, c, r program optimized to its two kept statements
C7_Witness ==
    /\ pc = "optimized"
    /\ prog = SubstituteLincomb
    /\ IsChainProgram(prog)
    /\ Len(out) = 2
    /\ DOMAIN substitution = {3, 4, 5}

\* ---- the pass seen statement by statement
\* how many statements of prog the pass has folded so far
Processed ==
    IF pc = "statements" THEN idx - 1
    ELSE IF pc = "optimized" THEN Len(prog.statements)
    ELSE 0

\* the maps when statement i is about to be folded
Before(i) == FoldStatements(prog, i - 1, EmptySubstitution, InitialIgnore(prog))

\* what folding statement i returned
Step(i) == fold_statement(Before(i).substitution, Before(i).ignore, prog.statements[i])

\* statement i is a constraint q == k * v with q, after substitution, not
\* linear-reducible and v fresh: neither ignored nor substituted
DefinesQuadratically(i) ==
    LET s == prog.statements[i]
        b == Before(i)
    IN  /\ s.kind = "C"
        /\ LET lin == fold_linear_combination(b.substitution, s.lin)
               quad == fold_quadratic_combination(b.substitution, s.quad)
           IN  /\ Len(lin) = 1
               /\ lin[1][2] # 0
               /\ lin[1][1] \notin b.ignore \cup DOMAIN b.substitution
               /\ ~(LinVars(Canon(quad[1])) \subseteq {ONE})
               /\ ~(LinVars(Canon(quad[2])) \subseteq {ONE})

\* C8: a constraint q == k * v with q not linear-reducible and v fresh is
\* re-emitted and v joins ignore, so every later constraint with v as the
\* variable of its linear side is kept and v never gets a substitution;
\* [z := x * y; z := x] is returned unchanged.
C8_QuadraticVariableIsKept ==
    /\ \A i \in 1 .. Processed :
          DefinesQuadratically(i) =>
              LET v == fold_linear_combination(Before(i).substitution, prog.statements[i].lin)[1][1]
              IN  /\ Len(Step(i).emit) = 1
                  /\ Step(i).emit[1].kind = "C"
                  /\ v \in ignore
                  /\ v \notin DOMAIN substitution
                  /\ \A j \in (i + 1) .. Processed :
                        (prog.statements[j].kind = "C" /\ LinVars(prog.statements[j].lin) = {v})
                            => Len(Step(j).emit) = 1
    /\ (pc = "optimized" /\ prog = KeepExistingQuadraticVariable) => out = prog.statements

\* ---- C9: directives on constants
\* the linear combination l, after substitution, is c * ONE
ConstantOf(sub, l) == CoeffOf(fold_linear_combination(sub, l), ONE)

IsConstantLin(sub, l) == LinVars(Canon(fold_linear_combination(sub, l))) \subseteq {ONE}

\* the input q reduces to a constant multiple of ONE: both factors are
\* constants, or one factor is zero
IsConstantInput(sub, q) ==
    \/ IsConstantLin(sub, q[1]) /\ IsConstantLin(sub, q[2])
    \/ Canon(fold_linear_combination(sub, q[1])) = << >>
    \/ Canon(fold_linear_combination(sub, q[2])) = << >>

InputValue(sub, q) == FMul(ConstantOf(sub, q[1]), ConstantOf(sub, q[2]))

\* the canonical linear combination c * ONE
ConstantLin(c) == IF c = 0 THEN << >> ELSE << <<ONE, c>> >>

\* folding a directive whose inputs are all constants emits nothing and
\* binds output k to the k-th value of the solver
ConstantDirectiveStep ==
    LET s == prog.statements[idx]
    IN  (/\ pc = "statements"
         /\ s.kind = "D"
         /\ \A j \in DOMAIN s.inputs : IsConstantInput(substitution, s.inputs[j]))
        => LET values == ExecuteSolver(s.solver,
                            [j \in DOMAIN s.inputs |-> InputValue(substitution, s.inputs[j])])
           IN  /\ out' = out
               /\ \A k \in DOMAIN s.outputs :
                     /\ s.outputs[k] \in DOMAIN substitution'
                     /\ substitution'[s.outputs[k]] = ConstantLin(values[k])

\* Bits(8) of 5: outputs 1..8 bound to 0,0,0,0,0,1,0,1 and no directive left
BitsOfFiveFolded ==
    (prog = BitsOfFive /\ Processed >= 1) =>
        /\ \A j \in DOMAIN out : out[j].kind # "D"
        /\ \A k \in 1 .. 8 : k \in DOMAIN substitution
        /\ [k \in 1 .. 8 |-> substitution[k]] =
               [k \in 1 .. 8 |-> ConstantLin(<<0, 0, 0, 0, 0, 1, 0, 1>>[k])]

\* C9: when every input of a directive reduces to a constant multiple of
\* ONE, no statement is emitted and output i is bound to solver(inputs)[i]
\* in substitution; Bits(8) on 5 * ONE binds its outputs to 0,0,0,0,0,1,0,1
\* (high bit first) and the directive is deleted.
C9_ConstantDirectiveIsFolded == [][ConstantDirectiveStep]_vars /\ []BitsOfFiveFolded

\* the Bits(8) directive folded away, its sixth output bound to 1
C9_Witness ==
    /\ prog = BitsOfFive
    /\ pc = "optimized"
    /\ 6 \in DOMAIN substitution
    /\ substitution[6] = <<<<ONE, 1>>>>
    /\ Len(out) = 1

\* ---- C10: order of the emitted statements
\* a step of the pass leaves out alone or appends one statement, of the
\* kind of the statement being folded
EmitsInOrder ==
    \/ out' = out
    \/ /\ pc = "statements"
       /\ Len(out') = Len(out) + 1
       /\ SubSeq(out', 1, Len(out)) = out
       /\ out'[Len(out')].kind = prog.statements[idx].kind

\* C10: statements are never reordered: each input statement yields zero or
\* one output statement, the output statements stand in the order of the
\* input statements they come from, and the output is never longer than the
\* input.
C10_OrderIsPreserved == [][EmitsInOrder]_vars /\ [](Len(out) <= Processed)

\* a three-statement program of which the first and the last are kept
C10_Witness ==
    /\ pc = "optimized"
    /\ Len(prog.statements) = 3
    /\ Len(out) = 2
    /\ out[1].kind = "D"
    /\ out[2].kind = "C"
    /\ prog.statements[2].kind = "C"

\* ---- C11: a second pass
\* the variable statement s defines: the variable of a one-term linear side,
\* the outputs of a directive
DefinedBy(s) ==
    IF s.kind = "D" THEN SeqRange(s.outputs)
    ELSE IF Len(s.lin) = 1 THEN {s.lin[1][1]}
    ELSE {}

\* the variables statement s reads
UsedBy(s) ==
    IF s.kind = "D"
    THEN UNION {LinVars(s.inputs[j][1]) \cup LinVars(s.inputs[j][2]) : j \in DOMAIN s.inputs}
    ELSE LinVars(s.quad[1]) \cup LinVars(s.quad[2]) \cup
         (IF Len(s.lin) = 1 THEN {} ELSE LinVars(s.lin))

\* every variable of p is defined once, before it is used, and is neither an
\* argument nor ONE
DefinedBeforeUse(p) ==
    \A i \in DOMAIN p.statements :
        /\ DefinedBy(p.statements[i]) \cap (ArgumentIds(p) \cup {ONE}) = {}
        /\ \A j \in 1 .. (i - 1) :
              DefinedBy(p.statements[i]) \cap
                  (DefinedBy(p.statements[j]) \cup UsedBy(p.statements[j])) = {}
        /\ UsedBy(p.statements[i]) \subseteq
              ArgumentIds(p) \cup {ONE} \cup UNION {DefinedBy(p.statements[j]) : j \in 1 .. (i - 1)}

Built == pc \in {"built", "assigned", "checked"}

\* C12: for w <= RequiredBits the function has the one private argument 0
\* and w + 3 statements: the Directive from <<0>> to 1..w with Bits(w), one
\* booleanity statement o == o * o for each of the w outputs, the sum check
\* against i0 * 1, and the Return of 1..w.
C12_UnpackHasItsShape ==
    Built =>
        /\ width <= RequiredBits
        /\ flat.arguments = <<Param(0, TRUE)>>
        /\ Len(flat.statements) = width + 3
        /\ flat.statements[1] =
               FlatDirective(<<Identifier(0)>>, [j \in 1 .. width |-> j], Bits(width))
        /\ \A o \in 1 .. width :
              Cardinality({k \in 2 .. (width + 1) :
                              flat.statements[k] =
                                  Condition(Identifier(o), Mult(Identifier(o), Identifier(o)))}) = 1
        /\ flat.statements[width + 2].kind = "Condition"
        /\ flat.statements[width + 2].rhs = Mult(Identifier(0), Number(1))
        /\ flat.statements[width + 3] = Return([j \in 1 .. width |-> Identifier(j)])

\* the function of the host width, three bits for F_7, with its six statements
C12_Witness ==
    /\ pc = "built"
    /\ width = RequiredBits
    /\ Len(flat.statements) = RequiredBits + 3
    /\ flat.statements[1].outputs = <<1, 2, 3>>

\* the values of the expressions f returns under the assignment w
Returned(f, w) ==
    [j \in DOMAIN f.statements[Len(f.statements)].expressions |->
        EvalFlat(f.statements[Len(f.statements)].expressions[j], w)]

RECURSIVE Recombine(_, _)
\* sum over i in 0 .. n-1 of bits[Len(bits) - i] * 2^i, in the field
Recombine(bits, n) ==
    IF n = 0 THEN 0
    ELSE FAdd(Recombine(bits, n - 1), FMul(bits[Len(bits) - (n - 1)], Pow2(n - 1) % Prime))

\* the bits of x over w positions, high bit first
BitsOf(x, w) == [j \in 1 .. w |-> (x \div Pow2(w - j)) % 2]

\* C13: for w <= RequiredBits and x < 2^w the bits the Bits(w) solver binds
\* to o_1..o_w satisfy every statement of the function, and the returned
\* bits recombine to x with o_1 the high bit and o_w the low bit.
C13_SolvedBitsRecombine ==
    (/\ pc = "checked"
     /\ witness[0] < Pow2(width)
     /\ witness = SolvedWitness(flat, witness[0]))
        => /\ result.ok
           /\ Returned(flat, witness) = BitsOf(witness[0], width)
           /\ Recombine(Returned(flat, witness), width) = witness[0]

\* 6 unpacked over three bits: 1, 1, 0
C13_Witness ==
    /\ pc = "checked"
    /\ width = 3
    /\ witness = SolvedWitness(flat, 6)
    /\ Returned(flat, witness) = <<1, 1, 0>>
    /\ result.ok

\* C14: for w < RequiredBits the statements hold for an input x only if
\* x < 2^w, and then only for the one assignment of the output bits.
C14_NarrowWidthsAreExact ==
    (pc = "checked" /\ width < RequiredBits /\ result.ok)
        => /\ witness[0] < Pow2(width)
           /\ \A j \in 1 .. width : witness[j] = BitsOf(witness[0], width)[j]

\* 3 accepted over two bits
C14_Witness ==
    /\ pc = "checked"
    /\ width = 2
    /\ result.ok
    /\ witness[0] = 3
    /\ witness[1] = 1

\* the input 0 with the bits bs
ZeroWith(bs) == [v \in 0 .. Len(bs) |-> IF v = 0 THEN 0 ELSE bs[v]]

\* C15: at the host width the statements do not determine the bits: the
\* input 0 is accepted with the all-zero bits and with the bits of the prime.
C15_HostWidthIsAmbiguous ==
    (Built /\ width = RequiredBits)
        => /\ Executed(flat, ZeroWith(BitsOf(0, RequiredBits))).ok
           /\ Executed(flat, ZeroWith(BitsOf(Prime, RequiredBits))).ok
           /\ BitsOf(0, RequiredBits) # BitsOf(Prime, RequiredBits)

\* the input 0 accepted with the bits of the prime
C15_Witness ==
    /\ pc = "checked"
    /\ width = RequiredBits
    /\ witness = ZeroWith(BitsOf(Prime, RequiredBits))
    /\ witness[1] = 1
    /\ result.ok

\* ---- C16, C17: sha256_round
RECURSIVE Dot(_, _, _)
\* the value of the first n terms of a row side under the assignment w
Dot(v, w, n) ==
    IF n = 0 THEN 0 ELSE FAdd(Dot(v, w, n - 1), FMul(v[n][2] % Prime, w[v[n][1]]))

\* assignments of the variables the rows mention
RowAssignments == [0 .. 3 -> 0 .. 2]

\* the statement says c = a * b for the row
Translates(s, row) ==
    /\ s.kind = "Condition"
    /\ s.rhs.op = "Mult"
    /\ \A w \in RowAssignments :
        /\ EvalFlat(s.lhs, w) = Dot(row.c, w, Len(row.c))
        /\ EvalFlat(s.rhs.left, w) = Dot(row.a, w, Len(row.a))
        /\ EvalFlat(s.rhs.right, w) = Dot(row.b, w, Len(row.b))

\* the statements before the translated rows
RowsAt == 2 + MessageLen + HashLen

\* C16: sha256_round() returns MessageLen + HashLen private arguments (message, then
\* current hash) and the statements, in order: the Sha256Round directive from the argument
\* variables to the constraint-system variables 0..V-1, V = aux_count + 1; variable 0 == 1;
\* for each constraint-system input index i (message, then hash) a binding of variable
\* i to argument variable i + V; the translated rows; a Return of HashLen output variables
C16_Sha256RoundHasItsShape ==
    pc = "built" =>
        /\ Len(flat.arguments) = MessageLen + HashLen
        /\ \A j \in DOMAIN flat.arguments : flat.arguments[j].private
        /\ \A j \in 1 .. MessageLen :
            flat.arguments[j].id = r1cs.input_indices[j] + r1cs.aux_count + 1
        /\ \A j \in 1 .. HashLen :
            flat.arguments[MessageLen + j].id = r1cs.current_hash_indices[j] + r1cs.aux_count + 1
        /\ Len(flat.statements) = RowsAt + Len(r1cs.constraints) + 1
        /\ flat.statements[1].kind = "Directive"
        /\ flat.statements[1].solver = Sha256Round
        /\ flat.statements[1].inputs = [j \in DOMAIN flat.arguments |-> Identifier(flat.arguments[j].id)]
        /\ flat.statements[1].outputs = [j \in 1 .. (r1cs.aux_count + 1) |-> j - 1]
        /\ flat.statements[2] = Condition(Identifier(0), Number(1))
        /\ \A j \in 1 .. MessageLen :
            flat.statements[2 + j] =
                Condition(Identifier(r1cs.input_indices[j]),
                          Identifier(r1cs.input_indices[j] + r1cs.aux_count + 1))
        /\ \A j \in 1 .. HashLen :
            flat.statements[2 + MessageLen + j] =
                Condition(Identifier(r1cs.current_hash_indices[j]),
                          Identifier(r1cs.current_hash_indices[j] + r1cs.aux_count + 1))
        /\ \A k \in DOMAIN r1cs.constraints :
            Translates(flat.statements[RowsAt + k], r1cs.constraints[k])
        /\ flat.statements[Len(flat.statements)] =
            Return([j \in 1 .. HashLen |-> Identifier(r1cs.output_indices[j])])

C16_Witness ==
    /\ pc = "built"
    /\ Len(r1cs.constraints) = MaxRows
    /\ r1cs.constraints[1] # r1cs.constraints[2]
    /\ Len(flat.arguments) = MessageLen + HashLen
    /\ flat.statements[2 + 1] = Condition(Identifier(1), Identifier(r1cs.aux_count + 2))
    /\ flat.statements[Len(flat.statements)].kind = "Return"

\* the ids of the arguments of a flat function
FlatArgumentIds(f) == {f.arguments[j].id : j \in DOMAIN f.arguments}

\* the constraint-system variables are exactly the ids 0..V-1
CsVariablesFillTheirRange ==
    SeqRange(flat.statements[1].outputs) = 0 .. r1cs.aux_count

StageOrder ==
    {<<"check", "flatten">>, <<"check", "failed">>, <<"flatten", "propagate">>,
     <<"propagate", "convert">>, <<"convert", "optimise">>, <<"optimise", "analyse">>,
     <<"analyse", "compiled">>, <<"analyse", "failed">>}

\* a step runs the next stage, and nothing runs once compile() has returned
RunsNextStage ==
    /\ <<pc, pc'>> \in StageOrder
    /\ pc \notin {"compiled", "failed"}
    /\ pc' = "failed" => artifacts' = "none"
    /\ pc = "analyse" => result'.ok = Detect(Optimize(prog)).ok

\* what compile() holds at each stage
StageOutcome ==
    /\ pc \notin {"compiled", "failed"} => artifacts = "none" /\ result = "none"
    /\ pc = "check" => abi = "none" /\ out = << >>
    /\ pc \in {"flatten", "propagate", "convert", "optimise"} => abi = AbiOf(prog) /\ out = << >>
    /\ pc = "compiled" =>
        /\ result = Ok
        /\ Detect(Optimize(prog)).ok
        /\ artifacts = CompilationArtifacts(Optimize(prog), AbiOf(prog))
    /\ pc = "failed" =>
        /\ artifacts = "none"
        /\ ~result.ok
        /\ \/ result \in CheckErrors /\ abi = "none" /\ out = << >>
           \/ /\ result = AnalysisError(Detect(Optimize(prog)).count)
              /\ ~Detect(Optimize(prog)).ok
              /\ out = Optimize(prog).statements

\* C18: compile() runs check, flatten, propagate, IR conversion, redefinition
\* optimization and unconstrained-variable analysis in this order; the analyzer gets
\* the optimizer's output; the first failing stage ends the compilation and no later
\* stage runs; artifacts exist only after every stage succeeded and hold the optimized
\* program as analysed and the ABI of the check stage
C18_StagesRunInOrder == [][RunsNextStage]_vars /\ []StageOutcome

C18_Witness ==
    /\ pc = "compiled"
    /\ artifacts.prog.statements # prog.statements
    /\ artifacts.prog = Optimized
    /\ artifacts.abi = AbiOf(prog)
    /\ Len(artifacts.prog.statements) < Len(prog.statements)
    /\ prog.arguments[1].private

\* ---- C19: constraints on an ignored or already substituted variable
\* the statement about to be folded is a constraint whose rewritten linear side is
\* non-zero and starts with an ignored variable or a key of substitution
KeepCase ==
    /\ pc = "statements"
    /\ prog.statements[idx].kind = "C"
    /\ ~IsZero(fold_linear_combination(substitution, prog.statements[idx].lin))
    /\ fold_linear_combination(substitution, prog.statements[idx].lin)[1][1]
          \in ignore \cup DOMAIN substitution

\* the step appends the rewritten constraint and changes neither map
KeepsRewritten ==
    KeepCase =>
        /\ out' = Append(out, Constraint(fold_quadratic_combination(substitution, prog.statements[idx].quad),
                                          fold_linear_combination(substitution, prog.statements[idx].lin)))
        /\ substitution' = substitution
        /\ ignore' = ignore

\* keep_one and keep_existing_variable come back as they were
KeepTestsUnchanged ==
    (pc = "optimized" /\ prog \in {KeepOne, KeepExistingVariable}) => Optimized = prog

\* C19: a constraint whose linear side, after substitution, is non-zero and has as first
\* variable an ignored variable or a key of substitution is re-emitted rewritten, and
\* substitution and ignore stay as they were; ONE := x and x == 1; x == 2 are unchanged
C19_KeptConstraintChangesNoMap == [][KeepsRewritten]_vars /\ []KeepTestsUnchanged

C19_Witness ==
    /\ pc = "optimized"
    /\ prog = KeepExistingVariable
    /\ out = prog.statements
    /\ substitution = EmptySubstitution
    /\ ignore = {ONE, 1}

\* ---- C20: the substitution map during one pass
\* every binding of substitution is still there, unchanged, after the step
KeepsBindings ==
    \A v \in DOMAIN substitution :
        v \in DOMAIN substitution' /\ substitution'[v] = substitution[v]

\* C20: during one pass no key of substitution is removed and no binding is replaced by
\* a different linear combination, whether a constraint or a constant-folded directive
\* recorded it
C20_SubstitutionOnlyGrows == [][KeepsBindings]_vars

\* ---- C21: directives whose inputs are not all constant
\* the statement about to be folded is a directive with an input that does not reduce
\* to a constant once substitution is applied
NonConstantCase ==
    /\ pc = "statements"
    /\ prog.statements[idx].kind = "D"
    /\ \E j \in DOMAIN prog.statements[idx].inputs :
          ~ReduceInput(fold_quadratic_combination(substitution, prog.statements[idx].inputs[j])).ok

\* the value of a quadratic combination under the assignment w
QuadValue(q, w) == FMul(Eval(q[1], w), Eval(q[2], w))

\* sample assignments of the variables of the generated programs
SampleAssignments == {w \in [ONE .. vr -> 0 .. 2] : w[ONE] = 1}

\* q is the input p with substitution applied, up to reduction
RewrittenInput(q, p) ==
    \A w \in SampleAssignments :
        QuadValue(q, w) = QuadValue(fold_quadratic_combination(substitution, p), w)

\* the step emits the one directive and marks its outputs
ReemitsDirective ==
    NonConstantCase =>
        /\ Len(out') = Len(out) + 1
        /\ SubSeq(out', 1, Len(out)) = out
        /\ out'[Len(out')].kind = "D"
        /\ out'[Len(out')].solver = prog.statements[idx].solver
        /\ out'[Len(out')].outputs = prog.statements[idx].outputs
        /\ DOMAIN out'[Len(out')].inputs = DOMAIN prog.statements[idx].inputs
        /\ \A j \in DOMAIN prog.statements[idx].inputs :
              RewrittenInput(out'[Len(out')].inputs[j], prog.statements[idx].inputs[j])
        /\ ignore' = ignore \cup SeqRange(prog.statements[idx].outputs)
        /\ substitution' = substitution

\* the outputs of the directives emitted so far
ReemittedOutputs ==
    UNION {SeqRange(out[j].outputs) : j \in {k \in DOMAIN out : out[k].kind = "D"}}

\* a constraint whose linear side is one output of an emitted directive is emitted
LaterConstraintKept ==
    (/\ pc = "statements"
     /\ prog.statements[idx].kind = "C"
     /\ Len(prog.statements[idx].lin) = 1
     /\ prog.statements[idx].lin[1][1] \in ReemittedOutputs)
        => Len(out') = Len(out) + 1

\* C21: a directive with a non-constant input is re-emitted once with its solver, its
\* outputs in order and its inputs rewritten, its outputs join ignore, substitution is
\* unchanged, and every later constraint whose linear side is one such output is kept
C21_DirectiveOutputsStay == [][ReemitsDirective /\ LaterConstraintKept]_vars

\* ---- C22: arguments in the detector
\* tests::unconstrained_private_input: one constraint on constants and the return
UnusedInput(private) ==
    Prog(<<Param(vx, private)>>,
         <<Constraint(Quad(Summand(1, ONE), Summand(6, ONE)), Summand(1, vr))>>,
         <<vr>>)

\* tests::constrained_private_input: out := x
UsedInput(private) ==
    Prog(<<Param(vx, private)>>, <<Definition(vr, Summand(1, vx))>>, <<vr>>)

\* C22: the argument is counted as unconstrained exactly when it is private and no
\* constraint mentions it: a private argument no constraint mentions gives Err(1), the
\* same argument mentioned in a constraint gives Ok, a public argument is never counted
C22_ArgumentCountedIffPrivateAndUnmentioned ==
    pc = "detected" =>
        /\ vx \in variables <=> (prog.arguments[1].private /\ ~InSomeConstraint(prog, vx))
        /\ prog = UnusedInput(TRUE) => result = Err(1)
        /\ prog = UsedInput(TRUE) => result = Ok
        /\ prog \in {UnusedInput(FALSE), UsedInput(FALSE)} => result = Ok

C22_Witness ==
    /\ pc = "detected"
    /\ prog = UnusedInput(TRUE)
    /\ variables = {vx}
    /\ result = Err(1)

\* ---- C23: directive outputs in the detector
\* the statement the detector visits next
Visiting == pc = "visit_statements" /\ idx <= Len(prog.statements)

\* a directive makes its outputs suspects and clears nothing; a constraint clears
\* exactly the variables it mentions
VisitEffect ==
    Visiting =>
        IF prog.statements[idx].kind = "D"
        THEN variables' = variables \cup SeqRange(prog.statements[idx].outputs)
        ELSE variables' = variables \ ConstraintVars(prog.statements[idx])

\* v is in a constraint among the statements i + 1 .. n
MentionedBetween(p, i, n, v) ==
    \E j \in (i + 1) .. n : Mentions(p.statements[j], v)

\* an output of a visited directive that no constraint visited after it mentions is
\* still a suspect
SuspectUntilConstrained ==
    pc \in {"visit_statements", "detected"} =>
        \A i \in 1 .. (idx - 1) :
            prog.statements[i].kind = "D" =>
                \A v \in SeqRange(prog.statements[i].outputs) :
                    v \notin variables => MentionedBetween(prog, i, idx - 1, v)

\* C23: every output of a directive becomes a suspect when the directive is visited and
\* is cleared only by an occurrence in a constraint visited after that directive, not by
\* an occurrence in the inputs of a directive nor in a constraint before the directive
C23_OutputsClearedOnlyByLaterConstraints == [][VisitEffect]_vars /\ []SuspectUntilConstrained

\* va is in a constraint before its directive and in the input of a later directive,
\* and is still a suspect at the end
C23_Witness ==
    /\ pc = "detected"
    /\ Len(prog.statements) = 3
    /\ Mentions(prog.statements[1], va)
    /\ prog.statements[2].kind = "D"
    /\ va \in SeqRange(prog.statements[2].outputs)
    /\ prog.statements[3].kind = "D"
    /\ va \in LinVars(prog.statements[3].inputs[1][2])
    /\ va \in variables

\* ---- C24: flat_expression_from_vec
\* Mult(Number(coefficient), Identifier(variable)) for the n-th pair of v
PairTerm(v, n) == Mult(Number(v[n][2]), Identifier(v[n][1]))

RECURSIVE LeftNested(_, _)
\* ((t1 + t2) + t3) + ... over the first n pairs of v
LeftNested(v, n) ==
    IF n = 1 THEN PairTerm(v, 1) ELSE Add(LeftNested(v, n - 1), PairTerm(v, n))

\* the expression the vector v is to become
ExpectedSide(v) ==
    IF Len(v) = 0 THEN Number(0)
    ELSE IF Len(v) = 1 THEN Add(Number(0), PairTerm(v, 1))
    ELSE LeftNested(v, Len(v))

\* the rows translated so far
RowsDone ==
    IF pc = "built" THEN Len(r1cs.constraints)
    ELSE IF pc = "constraints" THEN idx - 1
    ELSE 0

\* C24: flat_expression_from_vec returns Number(0) for the empty vector,
\* Add(Number(0), Mult(Number(c), Identifier(v))) for one pair and the left-nested Add of
\* the Mult terms in order for more, never a bare Mult; so every side of a translated
\* row is an Add or Number(0)
C24_SidesAreSumsOrZero ==
    \A k \in 1 .. RowsDone :
        /\ statements[RowsAt + k].lhs = ExpectedSide(r1cs.constraints[k].c)
        /\ statements[RowsAt + k].rhs.left = ExpectedSide(r1cs.constraints[k].a)
        /\ statements[RowsAt + k].rhs.right = ExpectedSide(r1cs.constraints[k].b)
        /\ \A e \in {statements[RowsAt + k].lhs, statements[RowsAt + k].rhs.left,
                      statements[RowsAt + k].rhs.right} :
              e.op = "Add" \/ e = Number(0)

\* a row with an empty, a one-pair and a three-pair side has been translated
C24_Witness ==
    /\ pc = "built"
    /\ Len(r1cs.constraints) = MaxRows
    /\ flat.statements[RowsAt + 1].lhs = Number(0)
    /\ flat.statements[RowsAt + 2].lhs = Add(Number(0), Mult(Number(1), Identifier(0)))
    /\ flat.statements[RowsAt + 2].rhs.left =
          Add(Add(Mult(Number(2), Identifier(3)), Mult(Number(1), Identifier(1))),
              Mult(Number(1), Identifier(2)))

\* ---- C25: substituted variables in the output
\* the emitted statements that mention a key of substitution
MentionsKey == {j \in DOMAIN out : StatementVars(out[j]) \cap DOMAIN substitution # {}}

PrivateVariant(p) ==
    [p EXCEPT !.arguments = [j \in DOMAIN p.arguments |-> Param(p.arguments[j].id, TRUE)]]

\* C26: optimize(P) has the arguments of P, with their ids, order and private flags, and
\* the returns of P; only the statements may differ
C26_ArgumentsAndReturnsUnchanged ==
    pc = "optimized" =>
        /\ Optimized.arguments = prog.arguments
        /\ Optimized.returns = prog.returns
        /\ Optimize(prog) = Prog(prog.arguments, out, prog.returns)
        /\ Optimize(PrivateVariant(prog)) = Prog(PrivateVariant(prog).arguments, out, prog.returns)

\* remove_multiple_synonyms: x, and z and w, are kept while the statements change
C26_Witness ==
    /\ pc = "optimized"
    /\ prog = RemoveMultipleSynonyms
    /\ Optimized = Prog(<<Param(1, FALSE)>>,
                        <<Definition(3, Summand(1, 1)), Definition(5, Summand(1, ONE))>>,
                        <<3, 5>>)

====
